---- MODULE Spec2Model ----
(***************************************************************************)
(* Order / inventory / seller-ledger engine of the marketplace backend.   *)
(*                                                                         *)
(* The persistent state is the relational store (products, orders, order  *)
(* items, seller balances).  Every request handler runs on its own        *)
(* SQLAlchemy session (db/session.py: autocommit=False, autoflush=False): *)
(*   - an attribute assignment is pending until db.flush() or db.commit() *)
(*   - db.refresh(obj) expires obj first, which discards the pending      *)
(*     (unflushed) changes of obj and, through the "all" cascade of       *)
(*     Order.order_items, of the items of its loaded collection            *)
(*   - every "with transaction_context(db)" block ends with db.commit(),  *)
(*     also when it is nested inside another such block                   *)
(*   - a query returns the session's object of a row that is already      *)
(*     loaded, with the attributes the session holds, also when the query *)
(*     locks the row (with_for_update without populate_existing).         *)
(* Money is kept in minor units (1/100 of the currency unit).             *)
(***************************************************************************)
EXTENDS Integers, FiniteSets, Sequences, TLC

\* ---------------------------------------------------------------- bounds
InitStock == 3
MaxQty == 2
NumWorkers == 3
MaxAggItems == 3
MaxFaults == 1
MaxCartOps == 2
MaxBatch == 2
MaxAttempts == 2
MaxCallbacks == 2

\* ------------------------------------------------------------ the catalog
Products == {"p1", "p2"}
Sellers == {"s1", "s2"}
Customers == {"b1", "b2"}
Buyers == {"b1"}
Admins == {"a1"}
OrderIds == {"o1"}
Workers == 1..NumWorkers

\* Product.seller_id of the products on sale: every seller sells one product
Catalog == [p \in Products |-> IF p = "p1" THEN "s1" ELSE "s2"]

\* Product.price, Numeric(15, 2), in minor units
price(p) == IF p = "p1" THEN 1000 ELSE 10

ItemStatuses == {"pending", "processing", "paid", "shipped", "delivered", "cancelled"}

\* schemas/order.py OrderStatus: the statuses a request can name
OrderStatus == {"pending", "processing", "paid", "shipped", "delivered", "cancelled"}

Roles == {"admin", "seller", "customer"}

NoOrder == [buyer_id |-> "none", total_amount |-> 0, status |-> "none"]
NoItem == [quantity |-> 0, price |-> 0, status |-> "none"]
NoReq == [op |-> "none"]
None == "none"
NoInv == [op |-> "none"]
NoTransfers == [attempts |-> 0, callbacks |-> 0]
PayoutIds == {"k1", "k2"}
\* paystack_transfer_id is NULL until the gateway accepts a transfer
NoTransferId == 0
NoPayout == [seller_id |-> None, amount |-> 0, platform_fee |-> 0, net_amount |-> 0,
             status |-> "none", failure_reason |-> None, paystack_transfer_id |-> NoTransferId]

VARIABLES
    products,   \* [Products -> [stock_quantity, status]]
    orders,     \* [OrderIds -> order row or NoOrder]
    items,      \* [OrderIds -> [Products -> order item row or NoItem]]
    sellers,    \* [Sellers -> balance fields of SellerProfile]
    cart_ops,   \* how many cart requests have been started so far
    faults,     \* how many handlers have been made to fail so far
    req,        \* the request whose handler is between two of its commits
    last,       \* what the last finished request was and how it ended
    lock,       \* [Products -> worker holding the row lock, or Unlocked]
    rs,         \* [Workers -> state of a concurrent reserve_stock call]
    agg,        \* input and result of the aggregate status derivation
    inv,        \* an inventory call made outside the handlers and its progress, or
                \* the seller balances with which the payouts started
    payouts,    \* [PayoutIds -> seller payout row or NoPayout]
    gateway,    \* [PayoutIds -> what the payment gateway was asked and has called back]
    catalog     \* [Products -> the seller of the product, Product.seller_id]

\* Product.seller_id
seller_id(p) == catalog[p]

vars == <<products, orders, items, sellers, cart_ops, faults, req, last, lock, rs, agg, inv, payouts, gateway,
          catalog>>

\* the committed store
DB == [products |-> products, orders |-> orders, items |-> items, sellers |-> sellers]

\* ------------------------------------------------------- Inventory Ledger
\* check_product_availability: the outcome of the unlocked read
check_product_availability(prods, p, requested_quantity) ==
    IF prods[p].status # "active" THEN "unavailable"
    ELSE IF prods[p].stock_quantity >= requested_quantity THEN "available"
    ELSE "insufficient"

\* reserve_stock, the part under the row lock: re-check of the stock
reserve_allowed(row, quantity) == ~(row.stock_quantity < quantity)

\* reserve_stock: decrement and status flip of the locked row
reserve_row(row, quantity) ==
    [stock_quantity |-> row.stock_quantity - quantity,
     status |-> IF row.stock_quantity - quantity = 0 THEN "out_of_stock" ELSE row.status]

\* release_stock: increment and status flip of the locked row
release_row(row, quantity) ==
    [stock_quantity |-> row.stock_quantity + quantity,
     status |-> IF row.status = "out_of_stock" /\ row.stock_quantity + quantity > 0
                THEN "active" ELSE row.status]

reserve_stock(prods, p, quantity) == [prods EXCEPT ![p] = reserve_row(@, quantity)]

release_stock(prods, p, quantity) == [prods EXCEPT ![p] = release_row(@, quantity)]

\* release_multiple_products: every listed item is released in turn; the
\* list has one entry per order item, and an order has one item per product
release_multiple_products(prods, its) ==
    [p \in Products |->
        IF its[p] # NoItem THEN release_row(prods[p], its[p].quantity) ELSE prods[p]]

\* ------------------------------------------------- helpers over item sets
RECURSIVE SumOver(_, _)
SumOver(S, f) ==
    IF S = {} THEN 0
    ELSE LET x == CHOOSE y \in S : TRUE IN f[x] + SumOver(S \ {x}, f)

\* the products that have an item in a collection of order items
ItemProducts(its) == {p \in Products : its[p] # NoItem}

\* sum(Decimal(str(item.price)) * item.quantity for item in order.order_items)
items_total(its) ==
    SumOver(ItemProducts(its), [p \in Products |-> its[p].price * its[p].quantity])

\* the distinct sellers reachable through the items' products
sellers_involved(its) == {seller_id(p) : p \in ItemProducts(its)}

\* the item list as the status derivation reads it
StatusItems(its) ==
    {[id |-> p, seller_id |-> seller_id(p), status |-> its[p].status] : p \in ItemProducts(its)}

\* ------------------------------------------- Order Status State Machine
get_valid_status_transitions(current_status, user_role) ==
    LET transitions ==
            [pending |-> {"processing", "cancelled"},
             processing |-> {"shipped", "cancelled"},
             shipped |-> {"delivered"},
             delivered |-> {},
             cancelled |-> {}]
        flexible ==
            IF user_role = "seller"
            THEN [transitions EXCEPT !.pending = @ \cup {"shipped"},
                                     !.processing = @ \cup {"delivered"}]
            ELSE transitions
    IN  IF current_status \in DOMAIN flexible THEN flexible[current_status] ELSE {}

validate_status_transition(current_status, new_status, user_role) ==
    new_status \in get_valid_status_transitions(current_status, user_role)

\* the precedence list with partially_delivered ahead of partially_cancelled
calculate_overall_order_status_delivered_first(seller_statuses) ==
    LET total_sellers == Cardinality(DOMAIN seller_statuses)
        count(st) == Cardinality({s \in DOMAIN seller_statuses : seller_statuses[s] = st})
    IN  IF DOMAIN seller_statuses = {} THEN "pending"
        ELSE IF count("delivered") = total_sellers THEN "delivered"
        ELSE IF count("cancelled") = total_sellers THEN "cancelled"
        ELSE IF count("delivered") > 0 THEN "partially_delivered"
        ELSE IF count("cancelled") > 0 THEN "partially_cancelled"
        ELSE IF count("shipped") = total_sellers THEN "shipped"
        ELSE IF count("shipped") > 0 THEN "partially_shipped"
        ELSE IF count("processing") > 0 THEN "processing"
        ELSE "pending"

\* calculate_overall_order_status: seller_statuses is the list of the
\* sellers' statuses, here a function from the sellers to their status
calculate_overall_order_status(seller_statuses) ==
    LET total_sellers == Cardinality(DOMAIN seller_statuses)
        count(st) == Cardinality({s \in DOMAIN seller_statuses : seller_statuses[s] = st})
    IN  IF DOMAIN seller_statuses = {} THEN "pending"
        ELSE IF count("delivered") = total_sellers THEN "delivered"
        ELSE IF count("cancelled") = total_sellers THEN "cancelled"
        ELSE IF count("cancelled") > 0 THEN "partially_cancelled"
        ELSE IF count("delivered") > 0 THEN "partially_delivered"
        ELSE IF count("shipped") = total_sellers THEN "shipped"
        ELSE IF count("shipped") > 0 THEN "partially_shipped"
        ELSE IF count("processing") > 0 THEN "processing"
        ELSE "pending"

\* the per-seller reduction inside calculate_overall_order_status_from_items
seller_overall_status(item_statuses) ==
    IF \A st \in item_statuses : st = "delivered" THEN "delivered"
    ELSE IF \A st \in item_statuses : st = "cancelled" THEN "cancelled"
    ELSE IF \E st \in item_statuses : st = "shipped" THEN "shipped"
    ELSE IF \E st \in item_statuses : st = "processing" THEN "processing"
    ELSE "pending"

\* calculate_overall_order_status_from_items: order_items is a set of
\* [id, seller_id, status]
calculate_overall_order_status_from_items(order_items) ==
    IF order_items = {} THEN "pending"
    ELSE LET sids == {i.seller_id : i \in order_items}
             seller_statuses ==
                 [s \in sids |-> seller_overall_status({i.status : i \in {j \in order_items : j.seller_id = s}})]
         IN  calculate_overall_order_status(seller_statuses)

\* ------------------------------------------------- Seller Balance Ledger
\* PLATFORM_FEE_RATE = Decimal('0.05'), as a number of hundredths
PLATFORM_FEE_RATE == 5

\* The balance columns are DECIMAL(12, 2): a value with more than two
\* decimals is rounded, half away from zero, when the row is written.
\* h is an exact amount in hundredths of a minor unit.
store_decimal(h) ==
    IF h >= 0 THEN (h + 50) \div 100 ELSE 0 - ((50 - h) \div 100)

\* calculate_seller_earnings: gross in minor units, fee and net in
\* hundredths of a minor unit (gross * 0.05 has up to four decimals)
calculate_seller_earnings(its, s) ==
    LET mine == {p \in ItemProducts(its) : seller_id(p) = s}
        gross == SumOver(mine, [p \in Products |-> its[p].quantity * its[p].price])
    IN  [gross_amount |-> gross,
         platform_fee |-> gross * PLATFORM_FEE_RATE,
         net_amount |-> gross * 100 - gross * PLATFORM_FEE_RATE,
         item_count |-> Cardinality(mine)]

\* update_seller_balance: the row after the call (the call commits)
update_seller_balance(row, earnings, order_status) ==
    IF order_status = "delivered"
    THEN [row EXCEPT
            !.pending_balance = store_decimal(@ * 100 - earnings.net_amount),
            !.available_balance = store_decimal(@ * 100 + earnings.net_amount),
            !.total_revenue = store_decimal(@ * 100 + earnings.gross_amount * 100)]
    ELSE IF order_status = "processing"
    THEN [row EXCEPT !.pending_balance = store_decimal(@ * 100 + earnings.net_amount)]
    ELSE row

\* update_seller_balances_for_order: one update_seller_balance per seller
\* of the order's items
update_seller_balances_for_order(sl, its, new_status) ==
    [s \in Sellers |->
        IF s \in sellers_involved(its)
        THEN update_seller_balance(sl[s], calculate_seller_earnings(its, s), new_status)
        ELSE sl[s]]

\* how many times update_seller_balances_for_order calls update_seller_balance
balance_calls(its) == [s \in Sellers |-> IF s \in sellers_involved(its) THEN 1 ELSE 0]

NoCalls == [s \in Sellers |-> 0]

\* ------------------------------------------------------ session semantics
\* "obj.attr = assigned; db.refresh(obj)" with autoflush off and no flush in
\* between: refresh expires obj (and the items of its loaded order_items
\* collection), so the assignment is dropped and the row keeps the value it
\* had at the last flush
assign_then_refresh(flushed, assigned) == flushed

\* "obj.attr = assigned; db.flush(); db.refresh(obj)": the flush writes it
assign_flush_refresh(flushed, assigned) == assigned

\* ---------------------------------------------------------- request log
\* the response of a request; a rejected request is logged without its
\* arguments
Result(op, role, actor, o, target, outcome, calls) ==
    [op |-> op, role |-> role, actor |-> actor, order |-> o, target |-> target,
     outcome |-> outcome, calls |-> calls]

Rejected(op, role, outcome) == Result(op, role, None, None, None, outcome, NoCalls)

NoResponse == [op |-> "none", role |-> None, actor |-> None, order |-> None, target |-> None,
               outcome |-> "none", calls |-> NoCalls]

\* no handler is running and the last response has been delivered
Idle == req = NoReq /\ last = NoResponse

\* Bound of the model: the number of cart requests that are started
CartBudget == cart_ops < MaxCartOps

\* get_orders_by_status(user_id, "pending"): the buyer's pending orders,
\* of which .first() returns one
pending_orders(b) == {o \in DOMAIN orders : orders[o].buyer_id = b /\ orders[o].status = "pending"}

FreeIds == {o \in DOMAIN orders : orders[o] = NoOrder}

\* the concurrent reserve_stock calls and the status derivation are idle
\* while requests are served
OthersIdle == UNCHANGED <<lock, rs, agg, inv, payouts, gateway, catalog>>

\* the response is delivered and the next request can be served
Respond ==
    /\ last # NoResponse
    /\ last' = NoResponse
    /\ UNCHANGED <<products, orders, items, sellers, cart_ops, faults, req>>
    /\ OthersIdle

\* ------------------------------------------------ Order Aggregate Manager
\* POST /orders: the router's checks fail (product inactive or out of
\* stock, or less stock than asked for): 400 and nothing is written
AddRejected(b, p, q) ==
    /\ Idle
    /\ check_product_availability(products, p, q) # "available"
    /\ last' = Rejected("create_order_item", "customer", "bad_request")
    /\ UNCHANGED <<products, orders, items, sellers, cart_ops, faults, req>>
    /\ OthersIdle

\* create_order up to the commit that ends reserve_stock: the order row is
\* flushed with its total and committed together with the decrement
CreateOrderBegin(b, p, q) ==
    /\ Idle
    /\ CartBudget
    /\ cart_ops' = cart_ops + 1
    /\ pending_orders(b) = {}
    /\ check_product_availability(products, p, q) = "available"
    /\ reserve_allowed(products[p], q)
    /\ \E o \in FreeIds :
        /\ orders' = [orders EXCEPT ![o] =
                [buyer_id |-> b, total_amount |-> q * price(p), status |-> "pending"]]
        /\ req' = [op |-> "create_order", actor |-> b, order |-> o, product |-> p,
                   quantity |-> q, moved |-> TRUE, pre |-> DB]
    /\ products' = reserve_stock(products, p, q)
    /\ UNCHANGED <<items, sellers, faults, last>>
    /\ OthersIdle

\* create_order after reserve_stock: the item is inserted and flushed; the
\* recalculated total is assigned and then dropped by db.refresh(new_order)
CreateOrderFinish ==
    /\ req.op = "create_order"
    /\ LET o == req.order
           p == req.product
           inserted == [items[o] EXCEPT ![p] =
                [quantity |-> req.quantity, price |-> price(p), status |-> "pending"]]
       IN  /\ items' = [items EXCEPT ![o] = inserted]
           /\ orders' = [orders EXCEPT ![o].total_amount =
                    assign_then_refresh(@, items_total(inserted))]
           /\ last' = Result("create_order", "customer", req.actor, o, None, "ok", NoCalls)
    /\ req' = NoReq
    /\ UNCHANGED <<products, sellers, cart_ops, faults>>
    /\ OthersIdle

\* create_order_item up to the commit that ends reserve_stock
CreateOrderItemBegin(b, p, q) ==
    /\ Idle
    /\ CartBudget
    /\ cart_ops' = cart_ops + 1
    /\ check_product_availability(products, p, q) = "available"
    /\ reserve_allowed(products[p], q)
    /\ \E o \in pending_orders(b) :
        req' = [op |-> "create_order_item", actor |-> b, order |-> o, product |-> p,
                quantity |-> q, moved |-> TRUE, pre |-> DB]
    /\ products' = reserve_stock(products, p, q)
    /\ UNCHANGED <<orders, items, sellers, faults, last>>
    /\ OthersIdle

\* create_order_item after reserve_stock.  Existing item: the increased
\* quantity is assigned but never flushed, and the final db.refresh(order)
\* expires the item.  New item: it is inserted and flushed.  In both cases
\* the new total is assigned and dropped by the final db.refresh(order).
CreateOrderItemFinish ==
    /\ req.op = "create_order_item"
    /\ LET o == req.order
           p == req.product
           existing_item == items[o][p]
           in_session ==
               IF existing_item # NoItem
               THEN [items[o] EXCEPT ![p].quantity = existing_item.quantity + req.quantity]
               ELSE [items[o] EXCEPT ![p] =
                        [quantity |-> req.quantity, price |-> price(p), status |-> "pending"]]
           written ==
               IF existing_item # NoItem
               THEN [items[o] EXCEPT ![p].quantity =
                        assign_then_refresh(existing_item.quantity, in_session[p].quantity)]
               ELSE in_session
       IN  /\ items' = [items EXCEPT ![o] = written]
           /\ orders' = [orders EXCEPT ![o].total_amount =
                    assign_then_refresh(@, items_total(in_session))]
           /\ last' = Result("create_order_item", "customer", req.actor, o, None, "ok", NoCalls)
    /\ req' = NoReq
    /\ UNCHANGED <<products, sellers, cart_ops, faults>>
    /\ OthersIdle

\* PUT /orders/{id}/items/{item}: a router check fails (order missing,
\* not the buyer's, not pending, item missing, or stock below the new
\* quantity): nothing is written
UpdateQuantityRejected(b, o, p, q) ==
    /\ Idle
    /\ LET outcome ==
            IF orders[o] = NoOrder THEN "not_found"
            ELSE IF orders[o].buyer_id # b THEN "forbidden"
            ELSE IF orders[o].status # "pending" THEN "bad_request"
            ELSE IF items[o][p] = NoItem THEN "not_found"
            ELSE IF products[p].stock_quantity < q THEN "bad_request"
            ELSE "ok"
       IN  /\ outcome # "ok"
           /\ last' = Rejected("update_order_item_quantity", "customer", outcome)
    /\ UNCHANGED <<products, orders, items, sellers, cart_ops, faults, req>>
    /\ OthersIdle

\* update_order_item_quantity up to the commit that ends reserve_stock or
\* release_stock (no commit when the quantity does not change)
UpdateQuantityBegin(b, o, p, q) ==
    /\ Idle
    /\ CartBudget
    /\ cart_ops' = cart_ops + 1
    /\ orders[o] # NoOrder
    /\ orders[o].buyer_id = b
    /\ orders[o].status = "pending"
    /\ items[o][p] # NoItem
    /\ ~(products[p].stock_quantity < q)
    /\ LET old_quantity == items[o][p].quantity
           quantity_diff == q - old_quantity
       IN  /\ quantity_diff > 0 => reserve_allowed(products[p], quantity_diff)
           /\ products' =
                IF quantity_diff > 0 THEN reserve_stock(products, p, quantity_diff)
                ELSE IF quantity_diff < 0 THEN release_stock(products, p, 0 - quantity_diff)
                ELSE products
           /\ req' = [op |-> "update_order_item_quantity", actor |-> b, order |-> o,
                      product |-> p, quantity |-> q, moved |-> quantity_diff # 0, pre |-> DB]
    /\ UNCHANGED <<orders, items, sellers, faults, last>>
    /\ OthersIdle

\* update_order_item_quantity after the stock move: quantity and total are
\* assigned, flushed, and only then is the order refreshed
UpdateQuantityFinish ==
    /\ req.op = "update_order_item_quantity"
    /\ LET o == req.order
           p == req.product
           in_session == [items[o] EXCEPT ![p].quantity = req.quantity]
       IN  /\ items' = [items EXCEPT ![o] = in_session]
           /\ orders' = [orders EXCEPT ![o].total_amount =
                    assign_flush_refresh(@, items_total(in_session))]
           /\ last' = Result("update_order_item_quantity", "customer", req.actor, o, None, "ok", NoCalls)
    /\ req' = NoReq
    /\ UNCHANGED <<products, sellers, cart_ops, faults>>
    /\ OthersIdle

\* DELETE /orders/{id}/items/{item} and DELETE /orders/{id}: a router
\* check fails, or the service finds no such item
DeleteRejected(op, b, o, p) ==
    /\ Idle
    /\ LET outcome ==
            IF orders[o] = NoOrder THEN "not_found"
            ELSE IF orders[o].buyer_id # b THEN "forbidden"
            ELSE IF orders[o].status # "pending" THEN "bad_request"
            ELSE IF op = "delete_order_item" /\ items[o][p] = NoItem THEN "not_found"
            ELSE "ok"
       IN  /\ outcome # "ok"
           /\ last' = Rejected(op, "customer", outcome)
    /\ UNCHANGED <<products, orders, items, sellers, cart_ops, faults, req>>
    /\ OthersIdle

\* delete_order_item up to the commit that ends release_stock
DeleteOrderItemBegin(b, o, p) ==
    /\ Idle
    /\ CartBudget
    /\ cart_ops' = cart_ops + 1
    /\ orders[o] # NoOrder
    /\ orders[o].buyer_id = b
    /\ orders[o].status = "pending"
    /\ items[o][p] # NoItem
    /\ products' = release_stock(products, p, items[o][p].quantity)
    /\ req' = [op |-> "delete_order_item", actor |-> b, order |-> o, product |-> p,
               quantity |-> items[o][p].quantity, moved |-> TRUE, pre |-> DB]
    /\ UNCHANGED <<orders, items, sellers, faults, last>>
    /\ OthersIdle

\* delete_order_item after release_stock: the item is deleted and flushed;
\* an order left without items is deleted, otherwise the new total is assigned and dropped by
\* db.refresh(order)
DeleteOrderItemFinish ==
    /\ req.op = "delete_order_item"
    /\ LET o == req.order
           remaining == [items[o] EXCEPT ![req.product] = NoItem]
       IN  /\ items' = [items EXCEPT ![o] = remaining]
           /\ IF ItemProducts(remaining) = {}
              THEN /\ orders' = [orders EXCEPT ![o] = NoOrder]
                   /\ last' = Result("delete_order_item", "customer", req.actor, o, None,
                                     "ORDER_DELETED", NoCalls)
              ELSE /\ orders' = [orders EXCEPT ![o].total_amount =
                            assign_then_refresh(@, items_total(remaining))]
                   /\ last' = Result("delete_order_item", "customer", req.actor, o, None,
                                     "ok", NoCalls)
    /\ req' = NoReq
    /\ UNCHANGED <<products, sellers, cart_ops, faults>>
    /\ OthersIdle

\* delete_order up to the commit that ends release_multiple_products (no
\* commit when the order has no items)
DeleteOrderBegin(b, o) ==
    /\ Idle
    /\ CartBudget
    /\ cart_ops' = cart_ops + 1
    /\ orders[o] # NoOrder
    /\ orders[o].buyer_id = b
    /\ orders[o].status = "pending"
    /\ products' = release_multiple_products(products, items[o])
    /\ req' = [op |-> "delete_order", actor |-> b, order |-> o, product |-> None,
               quantity |-> 0, moved |-> ItemProducts(items[o]) # {}, pre |-> DB]
    /\ UNCHANGED <<orders, items, sellers, faults, last>>
    /\ OthersIdle

\* delete_order after the release: the order and, by cascade, its items
DeleteOrderFinish ==
    /\ req.op = "delete_order"
    /\ orders' = [orders EXCEPT ![req.order] = NoOrder]
    /\ items' = [items EXCEPT ![req.order] = [p \in Products |-> NoItem]]
    /\ last' = Result("delete_order", "customer", req.actor, req.order, None, "ok", NoCalls)
    /\ req' = NoReq
    /\ UNCHANGED <<products, sellers, cart_ops, faults>>
    /\ OthersIdle

\* A handler raises after one of its inner commits (a failed statement, a
\* lost connection, a timeout): transaction_context calls db.rollback(),
\* which undoes what was written since the last commit, and re-raises
RequestFails ==
    /\ req # NoReq
    /\ faults < MaxFaults
    /\ faults' = faults + 1
    /\ last' = Result(req.op, "customer", req.actor, req.order, None, "error", NoCalls)
    /\ req' = NoReq
    /\ UNCHANGED <<products, orders, items, sellers, cart_ops>>
    /\ OthersIdle

\* -------------------------------------------------- status update requests
\* the products of the seller's items in an order
seller_items(its, s) == {p \in ItemProducts(its) : seller_id(p) = s}

\* update_seller_items_status on an order that has items of the seller;
\* first is seller_items[0].  The outcome, and the order row and items
\* that the closing commit writes.
update_seller_items_status(order, its, s, new_status, first) ==
    LET current_item_status == its[first].status
        updated == [p \in Products |->
                        IF p \in seller_items(its, s)
                        THEN [its[p] EXCEPT !.status = new_status] ELSE its[p]]
        new_order_status == calculate_overall_order_status_from_items(StatusItems(updated))
    IN  IF ~validate_status_transition(current_item_status, new_status, "seller")
        THEN [outcome |-> "bad_request", order |-> order, items |-> its]
        ELSE [outcome |-> "ok",
              order |-> [order EXCEPT !.status = new_order_status],
              items |-> updated]

\* PATCH /seller/orders/{id}/status: get_seller_order_by_id finds nothing
\* (no such order, or none of the seller's items in it): 404
SellerItemsNotFound(s, o, new_status) ==
    /\ Idle
    /\ seller_items(items[o], s) = {}
    /\ last' = Rejected("update_seller_items_status", "seller", "not_found")
    /\ UNCHANGED <<products, orders, items, sellers, cart_ops, faults, req>>
    /\ OthersIdle

\* PATCH /seller/orders/{id}/status: update_seller_items_status
UpdateSellerItemsStatus(s, o, new_status) ==
    /\ Idle
    /\ \E first \in seller_items(items[o], s) :
        LET r == update_seller_items_status(orders[o], items[o], s, new_status, first)
        IN  /\ orders' = [orders EXCEPT ![o] = r.order]
            /\ items' = [items EXCEPT ![o] = r.items]
            /\ last' = IF r.outcome = "ok"
                       THEN Result("update_seller_items_status", "seller", s, o, new_status,
                                   "ok", NoCalls)
                       ELSE Rejected("update_seller_items_status", "seller", r.outcome)
    /\ UNCHANGED <<products, sellers, cart_ops, faults, req>>
    /\ OthersIdle

\* update_order_status without the check that the customer is the buyer
update_order_status_check_any_buyer(order, its, new_status, user_id, user_role) ==
    IF order = NoOrder THEN "not_found"
    ELSE IF ~validate_status_transition(order.status, new_status, user_role) THEN "bad_request"
    ELSE IF user_role = "seller" /\ seller_items(its, user_id) = {} THEN "forbidden"
    ELSE IF user_role = "customer"
            /\ (new_status # "cancelled" \/ order.status \notin {"pending", "processing"})
         THEN "forbidden"
    ELSE "ok"

\* update_order_status: the checks made before anything is written
update_order_status_check(order, its, new_status, user_id, user_role) ==
    IF order = NoOrder THEN "not_found"
    ELSE IF ~validate_status_transition(order.status, new_status, user_role) THEN "bad_request"
    ELSE IF user_role = "seller" /\ seller_items(its, user_id) = {} THEN "forbidden"
    ELSE IF user_role = "customer"
            /\ (new_status # "cancelled" \/ order.status \notin {"pending", "processing"})
         THEN "forbidden"
    ELSE IF user_role = "customer" /\ order.buyer_id # user_id THEN "forbidden"
    ELSE "ok"

\* update_order_status, a request that one of the checks rejects
UpdateOrderStatusRejected(user_role, user_id, o, new_status) ==
    /\ Idle
    /\ LET outcome == update_order_status_check(orders[o], items[o], new_status, user_id, user_role)
       IN  /\ outcome # "ok"
           /\ last' = Rejected("update_order_status", user_role, outcome)
    /\ UNCHANGED <<products, orders, items, sellers, cart_ops, faults, req>>
    /\ OthersIdle

\* update_order_status by a seller who has items in the order: the call is
\* handed to update_seller_items_status and its result returned
UpdateOrderStatusSeller(s, o, new_status) ==
    /\ Idle
    /\ update_order_status_check(orders[o], items[o], new_status, s, "seller") = "ok"
    /\ \E first \in seller_items(items[o], s) :
        LET r == update_seller_items_status(orders[o], items[o], s, new_status, first)
        IN  /\ orders' = [orders EXCEPT ![o] = r.order]
            /\ items' = [items EXCEPT ![o] = r.items]
            /\ last' = IF r.outcome = "ok"
                       THEN Result("update_order_status", "seller", s, o, new_status, "ok", NoCalls)
                       ELSE Rejected("update_order_status", "seller", r.outcome)
    /\ UNCHANGED <<products, sellers, cart_ops, faults, req>>
    /\ OthersIdle

\* update_order_status by an admin or a customer: stock is released when a
\* pending or processing order is cancelled, the order row gets the new
\* status (the items keep theirs), and every seller of the order has its
\* balance updated
UpdateOrderStatus(user_role, user_id, o, new_status) ==
    /\ Idle
    /\ user_role \in {"admin", "customer"}
    /\ update_order_status_check(orders[o], items[o], new_status, user_id, user_role) = "ok"
    /\ LET old_status == orders[o].status
       IN  products' =
               IF new_status = "cancelled" /\ old_status \in {"pending", "processing"}
               THEN release_multiple_products(products, items[o])
               ELSE products
    /\ orders' = [orders EXCEPT ![o].status = new_status]
    /\ sellers' = update_seller_balances_for_order(sellers, items[o], new_status)
    /\ last' = Result("update_order_status", user_role, user_id, o, new_status, "ok",
                      balance_calls(items[o]))
    /\ UNCHANGED <<items, cart_ops, faults, req>>
    /\ OthersIdle

\* ------------------------------------------------------------- payments
\* POST /payments/verify and the charge.success webhook: the handler sets
\* payment.status and order.status = "processing" in the session and calls
\* update_seller_balances_for_order(db, order.id, "processing", old_status),
\* one argument more than the method takes; the TypeError is raised before
\* any seller is visited and before db.commit(), the request ends with 500
\* and the session is closed with nothing written.  The Payment row is the
\* one POST /payments/initialize wrote while the order was pending.
VerifyPayment(o) ==
    /\ Idle
    /\ orders[o] # NoOrder
    /\ last' = Rejected("verify_payment", "customer", "error")
    /\ UNCHANGED <<products, orders, items, sellers, cart_ops, faults, req>>
    /\ OthersIdle

\* ------------------------------------ concurrent reserve_stock calls
\* Each worker is a POST /orders request for ReservedProduct in a process
\* and a session of its own: the router reads the product, create_order
\* validates it and calls reserve_stock.
NoRow == [stock_quantity |-> 0, status |-> "none"]
IdleCall == [pc |-> "idle", quantity |-> 0, row |-> NoRow, result |-> "none"]
ReservedProduct == "p1"
\* no transaction holds the lock of the row
Unlocked == 0

\* db.query(Product)...first(): a row whose object is already in the
\* session keeps the attributes the session has loaded (the queries are
\* made without populate_existing and nothing expires the object before
\* the first commit); otherwise the object is built from the row
identity_map_load(in_session, row) == IF in_session = NoRow THEN row ELSE in_session

\* .with_for_update(): SELECT ... FOR UPDATE waits while another
\* transaction holds the lock of the row
with_for_update(p) == lock[p] = Unlocked

\* the router's product_service.get_product_by_id and its checks, then
\* check_product_availability: unlocked reads; the router keeps the
\* product object for the rest of the request
ReserveRead(w) ==
    /\ rs[w].pc = "start"
    /\ LET product == identity_map_load(rs[w].row, products[ReservedProduct])
       IN  IF product.status = "active" /\ ~(product.stock_quantity < rs[w].quantity)
                /\ check_product_availability(products, ReservedProduct, rs[w].quantity)
                        = "available"
           THEN rs' = [rs EXCEPT ![w].pc = "read", ![w].row = product]
           ELSE rs' = [rs EXCEPT ![w].pc = "done", ![w].result = "rejected"]
    /\ UNCHANGED <<products, orders, items, sellers, cart_ops, faults, req, last, lock, agg, catalog, inv, payouts, gateway>>

\* reserve_stock, db.query(Product)...with_for_update().first(): the row
\* is locked and the session's object of the product is returned
ReserveLock(w) ==
    /\ rs[w].pc = "read"
    /\ with_for_update(ReservedProduct)
    /\ lock' = [lock EXCEPT ![ReservedProduct] = w]
    /\ rs' = [rs EXCEPT ![w].pc = "locked",
                        ![w].row = identity_map_load(rs[w].row, products[ReservedProduct])]
    /\ UNCHANGED <<products, orders, items, sellers, cart_ops, faults, req, last, agg, catalog, inv, payouts, gateway>>

\* the re-check under the lock: HTTPException (transaction_context rolls
\* back, which ends the transaction and frees the lock) or the decrement
\* and the status flip in the session
ReserveCheck(w) ==
    /\ rs[w].pc = "locked"
    /\ IF reserve_allowed(rs[w].row, rs[w].quantity)
       THEN /\ rs' = [rs EXCEPT ![w].pc = "dirty",
                                ![w].row = reserve_row(rs[w].row, rs[w].quantity)]
            /\ UNCHANGED lock
       ELSE /\ rs' = [rs EXCEPT ![w].pc = "done", ![w].result = "insufficient"]
            /\ lock' = [lock EXCEPT ![ReservedProduct] = IF @ = w THEN Unlocked ELSE @]
    /\ UNCHANGED <<products, orders, items, sellers, cart_ops, faults, req, last, agg, catalog, inv, payouts, gateway>>

\* transaction_context: db.commit() writes the changed columns of the
\* session's object and frees the lock
ReserveCommit(w) ==
    /\ rs[w].pc = "dirty"
    /\ products' = [products EXCEPT ![ReservedProduct] = rs[w].row]
    /\ lock' = [lock EXCEPT ![ReservedProduct] = IF @ = w THEN Unlocked ELSE @]
    /\ rs' = [rs EXCEPT ![w].pc = "done", ![w].result = "ok"]
    /\ UNCHANGED <<orders, items, sellers, cart_ops, faults, req, last, agg, catalog, inv, payouts, gateway>>

\* ------------------------------------ concurrent add-to-cart requests
\* Each worker is a POST /orders request of the same buyer, in a process
\* and a session of its own; the id of the order a worker inserts
\* (gen_random_uuid) is the worker's number.
CartBuyer == "b1"

\* the router: get_orders_by_status(user, "pending") and the product
\* checks, all unlocked reads
AddToCartRead(w) ==
    /\ rs[w].pc = "start"
    /\ LET product == identity_map_load(NoRow, products[rs[w].product])
       IN  IF product.status = "active" /\ ~(product.stock_quantity < rs[w].quantity)
           THEN \E existing_order \in
                    IF pending_orders(CartBuyer) = {} THEN {0} ELSE pending_orders(CartBuyer) :
                  rs' = [rs EXCEPT ![w].pc = "read", ![w].row = product,
                                   ![w].existing_order = existing_order]
           ELSE rs' = [rs EXCEPT ![w].pc = "done", ![w].result = "rejected"]
    /\ UNCHANGED <<products, orders, items, sellers, cart_ops, faults, req, last, lock, agg, catalog, inv, payouts, gateway>>

\* no pending order was found: create_order inserts the order row, reserves
\* on the session's product object and inserts the item
AddToCartCreate(w) ==
    /\ rs[w].pc = "read"
    /\ rs[w].existing_order = 0
    /\ LET p == rs[w].product
           q == rs[w].quantity
       IN  /\ reserve_allowed(rs[w].row, q)
           /\ products' = [products EXCEPT ![p] = reserve_row(rs[w].row, q)]
           /\ orders' = [orders EXCEPT ![w] =
                    [buyer_id |-> CartBuyer, total_amount |-> q * price(p), status |-> "pending"]]
           /\ items' = [items EXCEPT ![w][p] =
                    [quantity |-> q, price |-> price(p), status |-> "pending"]]
    /\ rs' = [rs EXCEPT ![w].pc = "done", ![w].result = "ok"]
    /\ UNCHANGED <<sellers, cart_ops, faults, req, last, lock, agg, catalog, inv, payouts, gateway>>

\* a pending order was found: create_order_item on it (an existing item
\* keeps its quantity, a new item is inserted, the total keeps its value)
AddToCartAppend(w) ==
    /\ rs[w].pc = "read"
    /\ rs[w].existing_order # 0
    /\ LET o == rs[w].existing_order
           p == rs[w].product
           q == rs[w].quantity
       IN  /\ reserve_allowed(rs[w].row, q)
           /\ products' = [products EXCEPT ![p] = reserve_row(rs[w].row, q)]
           /\ items' = IF items[o][p] # NoItem THEN items
                       ELSE [items EXCEPT ![o][p] =
                                [quantity |-> q, price |-> price(p), status |-> "pending"]]
    /\ rs' = [rs EXCEPT ![w].pc = "done", ![w].result = "ok"]
    /\ UNCHANGED <<orders, sellers, cart_ops, faults, req, last, lock, agg, catalog, inv, payouts, gateway>>

\* ------------------------------------------ reserve_multiple_products
\* One call of reserve_multiple_products on a session of its own, while
\* the POST /orders request of worker Interferer reserves ReservedProduct.
Interferer == 1
\* the lock owner id of the batch call
BatchCaller == NumWorkers + 1
BatchItems ==
    UNION {[1..n -> [product_id : Products, quantity : 1..MaxQty]] : n \in 1..MaxBatch}

\* the quantity the list asks of product p, over all its entries
Requested(batch_items, p) ==
    SumOver({i \in DOMAIN batch_items : batch_items[i].product_id = p},
            [i \in DOMAIN batch_items |-> batch_items[i].quantity])

\* the first loop: check_product_availability for every item, each against
\* the committed row; one item that is not available raises
ReserveManyCheck ==
    /\ inv.op = "reserve_multiple_products"
    /\ inv.pc = "start"
    /\ IF \A i \in DOMAIN inv.items :
            check_product_availability(products, inv.items[i].product_id,
                                       inv.items[i].quantity) = "available"
       THEN inv' = [inv EXCEPT !.pc = "reserve"]
       ELSE inv' = [inv EXCEPT !.pc = "done", !.result = "failed"]
    /\ UNCHANGED <<products, orders, items, sellers, cart_ops, faults, req, last, lock, rs, agg, catalog, payouts, gateway>>

\* the second loop, one item: the row is locked and read (the session keeps
\* the objects it has changed), decremented without a re-check, and set to
\* out_of_stock when the result is exactly zero
ReserveManyLock ==
    /\ inv.op = "reserve_multiple_products"
    /\ inv.pc = "reserve"
    /\ inv.i <= Len(inv.items)
    /\ LET item == inv.items[inv.i]
           p == item.product_id
           product == identity_map_load(inv.session[p], products[p])
           stock_quantity == product.stock_quantity - item.quantity
       IN  /\ with_for_update(p) \/ lock[p] = BatchCaller
           /\ lock' = [lock EXCEPT ![p] = BatchCaller]
           /\ inv' = [inv EXCEPT !.i = @ + 1,
                                 !.session[p] =
                                    [stock_quantity |-> stock_quantity,
                                     status |-> IF stock_quantity = 0 THEN "out_of_stock"
                                                ELSE product.status]]
    /\ UNCHANGED <<products, orders, items, sellers, cart_ops, faults, req, last, rs, agg, catalog, payouts, gateway>>

\* transaction_context: db.commit() writes the changed rows and frees the
\* locks
ReserveManyCommit ==
    /\ inv.op = "reserve_multiple_products"
    /\ inv.pc = "reserve"
    /\ inv.i > Len(inv.items)
    /\ products' = [p \in Products |-> identity_map_load(inv.session[p], products[p])]
    /\ lock' = [p \in Products |-> IF lock[p] = BatchCaller THEN Unlocked ELSE lock[p]]
    /\ inv' = [inv EXCEPT !.pc = "done", !.result = "ok"]
    /\ UNCHANGED <<orders, items, sellers, cart_ops, faults, req, last, rs, agg, catalog, payouts, gateway>>

\* ------------------------------------ reserve_stock, then release_stock
\* reserve_stock(product_id, quantity) followed by release_stock of the
\* same product and quantity, on the product rows the program can hold:
\* active or manually inactive with any stock, out_of_stock with none.
ProductRows ==
    [stock_quantity : 0..InitStock, status : {"active", "inactive"}]
        \cup {[stock_quantity |-> 0, status |-> "out_of_stock"]}

PairReserve ==
    /\ inv.op = "reserve_release"
    /\ inv.pc = "start"
    /\ IF reserve_allowed(products[inv.product_id], inv.quantity)
       THEN /\ products' = reserve_stock(products, inv.product_id, inv.quantity)
            /\ inv' = [inv EXCEPT !.pc = "reserved", !.pre = products[inv.product_id]]
       ELSE /\ products' = products
            /\ inv' = [inv EXCEPT !.pc = "done", !.result = "insufficient"]
    /\ UNCHANGED <<orders, items, sellers, cart_ops, faults, req, last, lock, rs, agg, catalog, payouts, gateway>>

PairRelease ==
    /\ inv.op = "reserve_release"
    /\ inv.pc = "reserved"
    /\ products' = release_stock(products, inv.product_id, inv.quantity)
    /\ inv' = [inv EXCEPT !.pc = "done", !.result = "ok"]
    /\ UNCHANGED <<orders, items, sellers, cart_ops, faults, req, last, lock, rs, agg, catalog, payouts, gateway>>

\* ------------------------------------------ the status derivation alone
\* the item lists the derivation is applied to: up to MaxAggItems items,
\* each of one of the sellers and in one of the item statuses
AggSlots == 1..MaxAggItems
AggChoices == [AggSlots -> {<<None, None>>} \cup (Sellers \X ItemStatuses)]
AggItems(c) ==
    {[id |-> i, seller_id |-> c[i][1], status |-> c[i][2]] : i \in {j \in AggSlots : c[j][1] # None}}

AggCompute ==
    /\ agg.result = "none"
    /\ agg' = [agg EXCEPT !.result = calculate_overall_order_status_from_items(agg.items)]
    /\ UNCHANGED <<products, orders, items, sellers, cart_ops, faults, req, last, lock, rs, inv, payouts, gateway,
                 catalog>>

\* ---------------------------------------------------------- seller payouts
\* amounts a seller asks for (minor units; the router refuses amount <= 0)
PayoutAmounts == {30, 1000, 1001}

\* available_balance of a seller when the payouts start
OpeningBalances == {0, 1000}

\* what the gateway answers to process_payout: the transfer is accepted, or
\* the recipient or the transfer is refused, or the call raises
GatewayOutcomes == {"ok", "Failed to create transfer recipient", "Paystack transfer failed",
                    "exception"}

\* the statuses a transfer webhook carries that handle_payout_webhook acts on
WebhookStatuses == {"success", "failed"}

\* create_payout: the balance check, with <= in place of <
create_payout_check_strict(available_balance, amount) ==
    IF available_balance <= amount THEN "Insufficient balance for payout" ELSE "ok"

\* create_payout: the balance check
create_payout_check(available_balance, amount) ==
    IF available_balance < amount THEN "Insufficient balance for payout" ELSE "ok"

\* create_payout: the row that is added and committed; fee and net are
\* rounded to DECIMAL(12, 2) when written
new_payout(s, amount) ==
    [seller_id |-> s, amount |-> amount,
     platform_fee |-> store_decimal(amount * PLATFORM_FEE_RATE),
     net_amount |-> store_decimal(amount * 100 - amount * PLATFORM_FEE_RATE),
     status |-> "pending", failure_reason |-> None, paystack_transfer_id |-> NoTransferId]

\* process_payout, transfer accepted: the seller row after the deduction
payout_initiated(row, payout) ==
    [row EXCEPT !.available_balance = @ - payout.amount,
                !.total_paid = @ + payout.net_amount]

\* handle_payout_webhook, status failed: a refund that returns the amount
\* and leaves total_paid as process_payout made it
payout_refunded_amount_only(row, payout) ==
    [row EXCEPT !.available_balance = @ + payout.amount]

\* handle_payout_webhook, status failed: the seller row after the refund
payout_refunded(row, payout) ==
    [row EXCEPT !.available_balance = @ + payout.amount,
                !.total_paid = @ - payout.net_amount]

FreePayoutIds == {k \in PayoutIds : payouts[k] = NoPayout}

PayoutsIdle == UNCHANGED <<products, orders, items, cart_ops, faults, req, lock, rs, agg, catalog, inv>>

\* POST /seller/payouts refused: create_payout raises ValueError before
\* anything is added, the router answers 400
RequestPayoutRejected(s, amount) ==
    /\ Idle
    /\ create_payout_check(sellers[s].available_balance, amount) # "ok"
    /\ last' = Result("create_payout", "seller", s, None, amount,
                      create_payout_check(sellers[s].available_balance, amount), NoCalls)
    /\ UNCHANGED <<sellers, payouts, gateway>>
    /\ PayoutsIdle

\* POST /seller/payouts accepted: create_payout adds the payout and commits
RequestPayout(s, amount) ==
    /\ Idle
    /\ create_payout_check(sellers[s].available_balance, amount) = "ok"
    /\ \E k \in FreePayoutIds :
        payouts' = [payouts EXCEPT ![k] = new_payout(s, amount)]
    /\ last' = Result("create_payout", "seller", s, None, amount, "ok", NoCalls)
    /\ UNCHANGED <<sellers, gateway>>
    /\ PayoutsIdle

\* process_payout(k): the gateway is asked for the transfer.  Accepted:
\* the payout is processing under the transfer code and the seller's
\* balances are moved.  Otherwise the payout is failed with the reason.
ProcessPayout(k, outcome) ==
    /\ Idle
    /\ payouts[k] # NoPayout
    /\ SumOver(PayoutIds, [j \in PayoutIds |-> gateway[j].attempts]) < MaxAttempts
    /\ gateway' = [gateway EXCEPT ![k].attempts = @ + 1]
    /\ IF outcome = "ok"
       THEN /\ payouts' = [payouts EXCEPT ![k].status = "processing",
                                          ![k].paystack_transfer_id = gateway[k].attempts + 1]
            /\ sellers' = [sellers EXCEPT ![payouts[k].seller_id] = payout_initiated(@, payouts[k])]
       ELSE /\ payouts' = [payouts EXCEPT ![k].status = "failed",
                                          ![k].failure_reason = outcome]
            /\ UNCHANGED sellers
    /\ UNCHANGED last
    /\ PayoutsIdle

\* handle_payout_webhook for the transfer code of payout k (a code that
\* matches no payout is logged and nothing is written)
HandlePayoutWebhook(k, status) ==
    /\ Idle
    /\ payouts[k] # NoPayout
    /\ payouts[k].paystack_transfer_id # NoTransferId
    /\ SumOver(PayoutIds, [j \in PayoutIds |-> gateway[j].callbacks]) < MaxCallbacks
    /\ gateway' = [gateway EXCEPT ![k].callbacks = @ + 1]
    /\ IF status = "success"
       THEN /\ payouts' = [payouts EXCEPT ![k].status = "completed"]
            /\ UNCHANGED sellers
       ELSE /\ payouts' = [payouts EXCEPT ![k].status = "failed",
                                          ![k].failure_reason = "Transfer failed"]
            /\ sellers' = [sellers EXCEPT ![payouts[k].seller_id] = payout_refunded(@, payouts[k])]
    /\ UNCHANGED last
    /\ PayoutsIdle

\* ------------------------------------------- checkout and stock updates
\* process_checkout's stock check: every item of the pending order has at
\* least its quantity in stock
checkout_stock_ok(prods, its) ==
    \A p \in ItemProducts(its) : ~(prods[p].stock_quantity < its[p].quantity)

\* process_checkout's "reserve" loop: product.stock_quantity -= item.quantity
\* for every item of the pending order; the status column is not written
process_checkout(prods, its) ==
    [p \in Products |->
        IF its[p] # NoItem
        THEN [prods[p] EXCEPT !.stock_quantity = @ - its[p].quantity]
        ELSE prods[p]]

\* ProductService.update_product_stock: the stock column is set, the
\* status column is not written
update_product_stock(prods, p, new_stock) ==
    [prods EXCEPT ![p].stock_quantity = new_stock]

\* POST /checkout/process refused: the buyer has no pending order (404), or
\* an item has less stock than its quantity (400)
CheckoutRejected(b) ==
    /\ Idle
    /\ \/ /\ pending_orders(b) = {}
          /\ last' = Rejected("process_checkout", "customer", "not_found")
       \/ /\ \E o \in pending_orders(b) : ~checkout_stock_ok(products, items[o])
          /\ last' = Rejected("process_checkout", "customer", "bad_request")
    /\ UNCHANGED <<products, orders, items, sellers, cart_ops, faults, req>>
    /\ OthersIdle

\* POST /checkout/process with the buyer's own delivery address: the stock
\* of every item is decremented and committed, the order stays pending
ProcessCheckout(b) ==
    /\ Idle
    /\ \E o \in pending_orders(b) :
        /\ checkout_stock_ok(products, items[o])
        /\ products' = process_checkout(products, items[o])
        /\ last' = Result("process_checkout", "customer", b, o, None, "ok", NoCalls)
    /\ UNCHANGED <<orders, items, sellers, cart_ops, faults, req>>
    /\ OthersIdle

\* PATCH /products/{id}/stock by the seller of the product (or an admin)
UpdateProductStock(s, p, new_stock) ==
    /\ Idle
    /\ seller_id(p) = s
    /\ products' = update_product_stock(products, p, new_stock)
    /\ last' = Result("update_product_stock", "seller", s, None, p, "ok", NoCalls)
    /\ UNCHANGED <<orders, items, sellers, cart_ops, faults, req>>
    /\ OthersIdle

\* ------------------------------------------------------- specifications
\* the tables after the catalog is loaded, with room for the orders ids
InitTables(ids) ==
    /\ products = [p \in Products |-> [stock_quantity |-> InitStock, status |-> "active"]]
    /\ orders = [o \in ids |-> NoOrder]
    /\ items = [o \in ids |-> [p \in Products |-> NoItem]]
    /\ sellers = [s \in Sellers |->
            [available_balance |-> 0, pending_balance |-> 0, total_paid |-> 0, total_revenue |-> 0]]
    /\ cart_ops = 0
    /\ faults = 0
    /\ req = NoReq
    /\ last = NoResponse
    /\ lock = [p \in Products |-> Unlocked]
    /\ payouts = [k \in PayoutIds |-> NoPayout]
    /\ gateway = [k \in PayoutIds |-> NoTransfers]

InitStore == InitTables(OrderIds)

Init ==
    /\ InitStore
    /\ inv = NoInv
    /\ rs = [w \in Workers |-> IdleCall]
    /\ agg = [items |-> {}, result |-> "idle"]
    /\ catalog = Catalog

Next ==
    \/ \E b \in Buyers, p \in Products, q \in 1..MaxQty :
        \/ AddRejected(b, p, q)
        \/ CreateOrderBegin(b, p, q)
        \/ CreateOrderItemBegin(b, p, q)
    \/ CreateOrderFinish
    \/ CreateOrderItemFinish
    \/ \E b \in Customers, o \in OrderIds, p \in Products, q \in 1..MaxQty :
        \/ UpdateQuantityRejected(b, o, p, q)
        \/ UpdateQuantityBegin(b, o, p, q)
    \/ UpdateQuantityFinish
    \/ \E b \in Customers, o \in OrderIds, p \in Products :
        \/ DeleteRejected("delete_order_item", b, o, p)
        \/ DeleteRejected("delete_order", b, o, p)
        \/ DeleteOrderItemBegin(b, o, p)
    \/ DeleteOrderItemFinish
    \/ \E b \in Customers, o \in OrderIds : DeleteOrderBegin(b, o)
    \/ DeleteOrderFinish
    \/ RequestFails
    \/ \E s \in Sellers, o \in OrderIds, t \in OrderStatus :
        \/ SellerItemsNotFound(s, o, t)
        \/ UpdateSellerItemsStatus(s, o, t)
        \/ UpdateOrderStatusSeller(s, o, t)
    \/ \E r \in Roles, o \in OrderIds, t \in OrderStatus :
        \E u \in (IF r = "admin" THEN Admins ELSE IF r = "seller" THEN Sellers ELSE Customers) :
            \/ UpdateOrderStatusRejected(r, u, o, t)
            \/ UpdateOrderStatus(r, u, o, t)
    \/ \E o \in OrderIds : VerifyPayment(o)
    \/ Respond

Spec == Init /\ [][Next]_vars

InitReserve ==
    /\ InitStore
    /\ rs \in [Workers -> {[pc |-> "start", quantity |-> q, row |-> NoRow, result |-> "none"] :
                                q \in 1..MaxQty}]
    /\ agg = [items |-> {}, result |-> "idle"]
    /\ catalog = Catalog
    /\ inv = NoInv

NextReserve ==
    \E w \in Workers : ReserveRead(w) \/ ReserveLock(w) \/ ReserveCheck(w) \/ ReserveCommit(w)

SpecReserve == InitReserve /\ [][NextReserve]_vars

InitCarts ==
    /\ InitTables(Workers)
    /\ rs \in [Workers -> {[pc |-> "start", product |-> p, quantity |-> q, row |-> NoRow,
                            existing_order |-> 0, result |-> "none"] :
                                p \in Products, q \in 1..MaxQty}]
    /\ agg = [items |-> {}, result |-> "idle"]
    /\ catalog = Catalog
    /\ inv = NoInv

NextCarts ==
    \E w \in Workers : AddToCartRead(w) \/ AddToCartCreate(w) \/ AddToCartAppend(w)

SpecCarts == InitCarts /\ [][NextCarts]_vars

InitMany ==
    /\ InitStore
    /\ rs \in [Workers -> {[pc |-> "start", quantity |-> q, row |-> NoRow, result |-> "none"] :
                                q \in 1..MaxQty}]
    /\ \A w \in Workers \ {Interferer} : rs[w].quantity = 1
    /\ agg = [items |-> {}, result |-> "idle"]
    /\ catalog = Catalog
    /\ inv \in {[op |-> "reserve_multiple_products", pc |-> "start", items |-> batch_items,
                 i |-> 1, session |-> [p \in Products |-> NoRow], result |-> "none"] :
                    batch_items \in BatchItems}

NextMany ==
    \/ ReserveManyCheck
    \/ ReserveManyLock
    \/ ReserveManyCommit
    \/ ReserveRead(Interferer)
    \/ ReserveLock(Interferer)
    \/ ReserveCheck(Interferer)
    \/ ReserveCommit(Interferer)

SpecMany == InitMany /\ [][NextMany]_vars

InitPair ==
    /\ products \in [Products -> ProductRows]
    /\ orders = [o \in OrderIds |-> NoOrder]
    /\ items = [o \in OrderIds |-> [p \in Products |-> NoItem]]
    /\ sellers = [s \in Sellers |->
            [available_balance |-> 0, pending_balance |-> 0, total_paid |-> 0, total_revenue |-> 0]]
    /\ cart_ops = 0
    /\ faults = 0
    /\ req = NoReq
    /\ last = NoResponse
    /\ lock = [p \in Products |-> Unlocked]
    /\ payouts = [k \in PayoutIds |-> NoPayout]
    /\ gateway = [k \in PayoutIds |-> NoTransfers]
    /\ rs = [w \in Workers |-> IdleCall]
    /\ agg = [items |-> {}, result |-> "idle"]
    /\ catalog = Catalog
    /\ inv \in {[op |-> "reserve_release", pc |-> "start", product_id |-> p, quantity |-> q,
                 pre |-> NoRow, result |-> "none"] : p \in Products, q \in 1..MaxQty}

NextPair == PairReserve \/ PairRelease

SpecPair == InitPair /\ [][NextPair]_vars

InitPayout ==
    /\ products = [p \in Products |-> [stock_quantity |-> InitStock, status |-> "active"]]
    /\ orders = [o \in OrderIds |-> NoOrder]
    /\ items = [o \in OrderIds |-> [p \in Products |-> NoItem]]
    /\ sellers \in [Sellers ->
            {[available_balance |-> b, pending_balance |-> 0, total_paid |-> 0, total_revenue |-> 0] :
                b \in OpeningBalances}]
    /\ cart_ops = 0
    /\ faults = 0
    /\ req = NoReq
    /\ last = NoResponse
    /\ lock = [p \in Products |-> Unlocked]
    /\ payouts = [k \in PayoutIds |-> NoPayout]
    /\ gateway = [k \in PayoutIds |-> NoTransfers]
    /\ rs = [w \in Workers |-> IdleCall]
    /\ agg = [items |-> {}, result |-> "idle"]
    /\ catalog = Catalog
    /\ inv = [op |-> "payouts", opening |-> sellers]

NextPayout ==
    \/ \E s \in Sellers, amount \in PayoutAmounts :
        \/ RequestPayoutRejected(s, amount)
        \/ RequestPayout(s, amount)
    \/ \E k \in PayoutIds, outcome \in GatewayOutcomes : ProcessPayout(k, outcome)
    \/ \E k \in PayoutIds, status \in WebhookStatuses : HandlePayoutWebhook(k, status)
    \/ Respond

SpecPayout == InitPayout /\ [][NextPayout]_vars

\* a cart that the buyer has filled and adjusted: one pending order with
\* one or two items, the stock of each item reserved, and the total as
\* the last update_order_item_quantity wrote it
CartQuantities == {c \in [Products -> 0..MaxQty] : \E p \in Products : c[p] > 0}

InitDelete ==
    /\ \E c \in CartQuantities :
        /\ products = [p \in Products |->
                [stock_quantity |-> InitStock - c[p],
                 status |-> IF InitStock - c[p] = 0 THEN "out_of_stock" ELSE "active"]]
        /\ items = [o \in OrderIds |-> [p \in Products |->
                IF c[p] > 0 THEN [quantity |-> c[p], price |-> price(p), status |-> "pending"]
                ELSE NoItem]]
        /\ orders = [o \in OrderIds |->
                [buyer_id |-> CartBuyer, status |-> "pending",
                 total_amount |-> SumOver(Products, [p \in Products |-> c[p] * price(p)])]]
    /\ sellers = [s \in Sellers |->
            [available_balance |-> 0, pending_balance |-> 0, total_paid |-> 0, total_revenue |-> 0]]
    /\ cart_ops = 0
    /\ faults = 0
    /\ req = NoReq
    /\ last = NoResponse
    /\ lock = [p \in Products |-> Unlocked]
    /\ payouts = [k \in PayoutIds |-> NoPayout]
    /\ gateway = [k \in PayoutIds |-> NoTransfers]
    /\ rs = [w \in Workers |-> IdleCall]
    /\ agg = [items |-> {}, result |-> "idle"]
    /\ catalog = Catalog
    /\ inv = NoInv

NextDelete ==
    \/ \E b \in Customers, o \in OrderIds, p \in Products :
        \/ DeleteRejected("delete_order_item", b, o, p)
        \/ DeleteOrderItemBegin(b, o, p)
    \/ DeleteOrderItemFinish
    \/ \E b \in Customers, o \in OrderIds, p \in Products, q \in 1..MaxQty :
        UpdateQuantityBegin(b, o, p, q)
    \/ UpdateQuantityFinish
    \/ Respond

SpecDelete == InitDelete /\ [][NextDelete]_vars

\* Product X of the scenario, at price 10.00
ProductX == "p1"

\* the catalog with 5 units of every product and no order yet
InitScenario ==
    /\ products = [p \in Products |-> [stock_quantity |-> 5, status |-> "active"]]
    /\ orders = [o \in OrderIds |-> NoOrder]
    /\ items = [o \in OrderIds |-> [p \in Products |-> NoItem]]
    /\ sellers = [s \in Sellers |->
            [available_balance |-> 0, pending_balance |-> 0, total_paid |-> 0, total_revenue |-> 0]]
    /\ cart_ops = 0
    /\ faults = 0
    /\ req = NoReq
    /\ last = NoResponse
    /\ lock = [p \in Products |-> Unlocked]
    /\ payouts = [k \in PayoutIds |-> NoPayout]
    /\ gateway = [k \in PayoutIds |-> NoTransfers]
    /\ rs = [w \in Workers |-> IdleCall]
    /\ agg = [items |-> {}, result |-> "idle"]
    /\ catalog = Catalog
    /\ inv = NoInv

\* the buyer's requests: order, change the quantity, cancel
NextScenario ==
    \/ \E b \in Buyers, p \in Products, q \in 1..5 :
        \/ AddRejected(b, p, q)
        \/ CreateOrderBegin(b, p, q)
    \/ CreateOrderFinish
    \/ \E b \in Buyers, o \in OrderIds, p \in Products, q \in 1..5 :
        \/ UpdateQuantityRejected(b, o, p, q)
        \/ UpdateQuantityBegin(b, o, p, q)
    \/ UpdateQuantityFinish
    \/ \E b \in Buyers, o \in OrderIds : UpdateOrderStatus("customer", b, o, "cancelled")
    \/ Respond

SpecScenario == InitScenario /\ [][NextScenario]_vars

\* the buyer's requests that move stock: the cart, the cancellation and
\* the checkout
NextBuyerStock ==
    \/ \E b \in Buyers, p \in Products, q \in 1..MaxQty :
        \/ CreateOrderBegin(b, p, q)
        \/ CreateOrderItemBegin(b, p, q)
    \/ CreateOrderFinish
    \/ CreateOrderItemFinish
    \/ \E b \in Buyers, o \in OrderIds, p \in Products, q \in 1..MaxQty :
        UpdateQuantityBegin(b, o, p, q)
    \/ UpdateQuantityFinish
    \/ \E b \in Buyers, o \in OrderIds, p \in Products : DeleteOrderItemBegin(b, o, p)
    \/ DeleteOrderItemFinish
    \/ \E b \in Buyers, o \in OrderIds : DeleteOrderBegin(b, o)
    \/ DeleteOrderFinish
    \/ \E b \in Buyers, o \in OrderIds : UpdateOrderStatus("customer", b, o, "cancelled")
    \/ \E b \in Buyers : CheckoutRejected(b) \/ ProcessCheckout(b)
    \/ Respond

SpecBuyerStock == Init /\ [][NextBuyerStock]_vars

\* the requests that move stock: the buyer's and the seller's stock update
NextStock ==
    \/ NextBuyerStock
    \/ \E s \in Sellers, p \in Products, new_stock \in 0..InitStock :
        UpdateProductStock(s, p, new_stock)

SpecStock == Init /\ [][NextStock]_vars

InitAgg ==
    /\ InitStore
    /\ rs = [w \in Workers |-> IdleCall]
    /\ agg \in {[items |-> AggItems(c), result |-> "none"] : c \in AggChoices}
    /\ catalog = Catalog
    /\ inv = NoInv

NextAgg == AggCompute

SpecAgg == InitAgg /\ [][NextAgg]_vars

\* ================================================================ claims
\* a request ends in this step
RequestEnds == last = NoResponse /\ last' # NoResponse

\* the quantities reserved by the reserve_stock calls that succeeded
ReservedOk ==
    SumOver({w \in Workers : rs[w].result = "ok"}, [w \in Workers |-> rs[w].quantity])

\* C1: no oversell.  Under every interleaving of the concurrent
\* reservations of one product the stock is never negative, the quantities
\* of the calls that succeeded never sum to more than the initial stock,
\* and a call that was refused asked for more than is left.
NoOversell ==
    /\ products[ReservedProduct].stock_quantity >= 0
    /\ ReservedOk <= InitStock
    /\ \A w \in Workers :
            rs[w].result \in {"insufficient", "rejected"}
                => rs[w].quantity > products[ReservedProduct].stock_quantity

\* C2: total consistency.  Each order's total_amount is the sum of
\* quantity x price over its current items, in the committed states in which
\* every operation that was started has completed and none has failed.
TotalConsistency ==
    (req = NoReq /\ faults = 0) =>
        \A o \in OrderIds :
            orders[o] # NoOrder => orders[o].total_amount = items_total(items[o])

\* C3: atomic rollback.  When create_order, create_order_item,
\* update_order_item_quantity or delete_order_item fails after it has
\* reserved or released stock, the store is as it was before the call.
AtomicRollback ==
    [][(/\ req # NoReq
        /\ req.op \in {"create_order", "create_order_item",
                       "update_order_item_quantity", "delete_order_item"}
        /\ req.moved
        /\ req' = NoReq
        /\ last'.outcome = "error")
            => DB' = req.pre]_vars

\* C4: item status state machine.  The status of an order item changes only
\* along pending->processing, processing->shipped, shipped->delivered,
\* pending->cancelled or processing->cancelled (so never out of delivered
\* or cancelled).
BaseTransitions ==
    {<<"pending", "processing">>, <<"processing", "shipped">>, <<"shipped", "delivered">>,
     <<"pending", "cancelled">>, <<"processing", "cancelled">>}

ItemStateMachine ==
    [][\A o \in OrderIds, p \in Products :
            (items[o][p] # NoItem /\ items'[o][p] # NoItem
                /\ items'[o][p].status # items[o][p].status)
                => <<items[o][p].status, items'[o][p].status>> \in BaseTransitions]_vars

\* C5: aggregate derivation.  The reference reduction of the claim, written
\* with quantifiers over the sellers: per seller cancelled if all cancelled,
\* delivered if all delivered, shipped if any shipped, processing if any
\* processing, else pending; over the sellers the first match of the
\* precedence list.
RefSellerStatus(order_items, s) ==
    LET sts == {i.status : i \in {j \in order_items : j.seller_id = s}}
    IN  IF sts = {"cancelled"} THEN "cancelled"
        ELSE IF sts = {"delivered"} THEN "delivered"
        ELSE IF "shipped" \in sts THEN "shipped"
        ELSE IF "processing" \in sts THEN "processing"
        ELSE "pending"

RefOrderStatus(order_items) ==
    LET sids == {i.seller_id : i \in order_items}
        all(st) == \A s \in sids : RefSellerStatus(order_items, s) = st
        any(st) == \E s \in sids : RefSellerStatus(order_items, s) = st
    IN  CASE all("delivered") -> "delivered"
          [] ~all("delivered") /\ all("cancelled") -> "cancelled"
          [] ~all("delivered") /\ ~all("cancelled") /\ any("cancelled") -> "partially_cancelled"
          [] ~any("cancelled") /\ ~all("delivered") /\ any("delivered") -> "partially_delivered"
          [] ~any("cancelled") /\ ~any("delivered") /\ all("shipped") -> "shipped"
          [] ~any("cancelled") /\ ~any("delivered") /\ ~all("shipped") /\ any("shipped")
                -> "partially_shipped"
          [] ~any("cancelled") /\ ~any("delivered") /\ ~any("shipped") /\ any("processing")
                -> "processing"
          [] OTHER -> "pending"

\* one seller has all items delivered, another all items cancelled, and
\* there is no third
DeliveredAndCancelled(order_items) ==
    \E sa, sb \in Sellers :
        /\ sa # sb
        /\ {i.seller_id : i \in order_items} = {sa, sb}
        /\ {i.status : i \in {j \in order_items : j.seller_id = sa}} = {"delivered"}
        /\ {i.status : i \in {j \in order_items : j.seller_id = sb}} = {"cancelled"}

\* C5: for every non-empty item list the derived status is the one of the
\* reference reduction; delivered + cancelled gives partially_cancelled.
AggregateDerivation ==
    (agg.result \notin {"none", "idle"} /\ agg.items # {}) =>
        /\ agg.result = RefOrderStatus(agg.items)
        /\ DeliveredAndCancelled(agg.items) => agg.result = "partially_cancelled"

AggregateDerivationWitness ==
    /\ agg.result = "partially_cancelled"
    /\ DeliveredAndCancelled(agg.items)

\* the item of product p in order o enters cancelled from pending or
\* processing in this step
EntersCancelled(o, p) ==
    /\ items[o][p] # NoItem
    /\ items'[o][p] # NoItem
    /\ items[o][p].status \in {"pending", "processing"}
    /\ items'[o][p].status = "cancelled"

\* C6: cancellation releases stock.  In a step in which items enter
\* cancelled from pending or processing, the stock of exactly those items
\* grows by their quantities and no other stock moves.
CancellationReleasesStock ==
    [][\A o \in OrderIds :
            (\E p \in Products : EntersCancelled(o, p)) =>
                \A p \in Products :
                    products'[p].stock_quantity =
                        products[p].stock_quantity
                            + (IF EntersCancelled(o, p) THEN items[o][p].quantity ELSE 0)]_vars

\* C7: balance update amounts.  With gross the sum of quantity x price over
\* the seller's items, fee 5% of gross and net = gross - fee (100 x net =
\* 95 x gross), a status update to processing adds net to pending_balance
\* only; one to delivered takes net from pending_balance, adds net to
\* available_balance and gross to total_revenue; any other status leaves
\* the four balances as they are.
BalanceUpdateAmounts ==
    [][(RequestEnds /\ last'.op = "update_order_status" /\ last'.outcome = "ok"
            /\ last'.role # "seller") =>
        \A s \in sellers_involved(items[last'.order]) :
            LET gross == SumOver(seller_items(items[last'.order], s),
                                 [p \in Products |->
                                    items[last'.order][p].quantity * items[last'.order][p].price])
                old == sellers[s]
                new == sellers'[s]
            IN  CASE last'.target = "processing" ->
                        /\ 100 * new.pending_balance = 100 * old.pending_balance + 95 * gross
                        /\ new = [old EXCEPT !.pending_balance = new.pending_balance]
                  [] last'.target = "delivered" ->
                        /\ 100 * new.pending_balance = 100 * old.pending_balance - 95 * gross
                        /\ 100 * new.available_balance = 100 * old.available_balance + 95 * gross
                        /\ new.total_revenue = old.total_revenue + gross
                        /\ new.total_paid = old.total_paid
                  [] OTHER -> new = old]_vars

\* C8: every successful change of an order's status invokes the seller
\* balance update exactly once for each distinct seller with items in the
\* order (and for no other seller).
StatusChangeUpdatesBalances ==
    [][\A o \in OrderIds :
            (orders[o] # NoOrder /\ orders'[o] # NoOrder
                /\ orders'[o].status # orders[o].status)
                => \A s \in Sellers :
                        last'.calls[s] = IF s \in sellers_involved(items[o]) THEN 1 ELSE 0]_vars

\* C9: seller role gating.  A status-update request of a seller succeeds
\* only if the target is processing, shipped or delivered and the seller
\* owns an item of the order; a rejected request changes nothing.
SellerRoleGating ==
    [][(RequestEnds /\ last'.role = "seller") =>
            IF last'.outcome = "ok"
            THEN /\ last'.target \in {"processing", "shipped", "delivered"}
                 /\ seller_items(items[last'.order], last'.actor) # {}
            ELSE DB' = DB]_vars

\* C10: customer role gating.  A status-update request of a customer
\* succeeds only if the target is cancelled, the order is pending or
\* processing and the customer is its buyer; every other request of a
\* customer on an order fails as Forbidden or as an invalid transition, and
\* a failed request changes nothing.
CustomerRoleGating ==
    [][(RequestEnds /\ last'.op = "update_order_status" /\ last'.role = "customer") =>
            IF last'.outcome = "ok"
            THEN /\ last'.target = "cancelled"
                 /\ orders[last'.order].status \in {"pending", "processing"}
                 /\ orders[last'.order].buyer_id = last'.actor
                 /\ orders'[last'.order].status = "cancelled"
            ELSE /\ DB' = DB
                 /\ (\A o \in OrderIds : orders[o] # NoOrder)
                        => last'.outcome \in {"forbidden", "bad_request"}]_vars

\* a customer's request on an existing pending order was refused as
\* Forbidden
CustomerRoleGatingWitness ==
    /\ last.op = "update_order_status"
    /\ last.role = "customer"
    /\ last.outcome = "forbidden"
    /\ \E o \in OrderIds : orders[o] # NoOrder /\ orders[o].status = "pending"

\* C11: at most one pending order per buyer.  In every state, also under
\* concurrent add-to-cart requests of one buyer, each buyer has at most one
\* order whose status is pending.
AtMostOnePendingOrder ==
    \A b \in Customers : Cardinality(pending_orders(b)) <= 1

\* C12: ReserveMany is all-or-nothing.  When reserve_multiple_products ends,
\* either it succeeded and the stock of every product has gone down by the
\* quantity the list asks of it and is not negative, or it failed and no
\* product row has changed.
ReserveManyAllOrNothing ==
    [][(inv.op = "reserve_multiple_products" /\ inv.pc # "done" /\ inv'.pc = "done") =>
            \/ /\ inv'.result = "ok"
               /\ \A p \in Products :
                    /\ products'[p].stock_quantity =
                            products[p].stock_quantity - Requested(inv.items, p)
                    /\ products'[p].stock_quantity >= 0
            \/ /\ inv'.result # "ok"
               /\ products' = products]_vars

\* C13: reserve/release symmetry.  After a reserve_stock(p, q) that
\* succeeded and the release_stock(p, q) that follows it, stock_quantity and
\* status of p are what they were before the reserve.
ReserveReleaseSymmetry ==
    (inv.op = "reserve_release" /\ inv.pc = "done" /\ inv.result = "ok")
        => products[inv.product_id] = inv.pre

\* C14: no half-applied mutation is observable.  No committed state has an
\* order row with a non-zero total and no items, and none has the stock of a
\* cart mutation already moved while the order rows and the items are still
\* the ones from before the mutation.
NoHalfAppliedMutation ==
    /\ \A o \in OrderIds :
            (orders[o] # NoOrder /\ orders[o].total_amount # 0)
                => ItemProducts(items[o]) # {}
    /\ (req # NoReq /\ req.moved)
            => ~(/\ products # req.pre.products
                 /\ orders = req.pre.orders
                 /\ items = req.pre.items)

\* C15: RequestPayout.  A payout request for more than the seller's
\* available_balance fails with the insufficient-balance error and creates
\* no payout; any other request creates exactly one payout, pending, of
\* that seller and amount.  In both cases the seller balances stay as
\* they were.
RequestPayoutContract ==
    [][(RequestEnds /\ last'.op = "create_payout") =>
        LET s == last'.actor
            amount == last'.target
            created == {k \in PayoutIds : payouts'[k] # payouts[k]}
        IN  /\ sellers' = sellers
            /\ IF amount > sellers[s].available_balance
               THEN /\ last'.outcome = "Insufficient balance for payout"
                    /\ payouts' = payouts
               ELSE /\ last'.outcome = "ok"
                    /\ Cardinality(created) = 1
                    /\ \A k \in created :
                        /\ payouts[k] = NoPayout
                        /\ payouts'[k].seller_id = s
                        /\ payouts'[k].amount = amount
                        /\ payouts'[k].status = "pending"]_vars

\* a seller was granted a payout of the whole available balance
RequestPayoutContractWitness ==
    /\ last.op = "create_payout"
    /\ last.outcome = "ok"
    /\ last.target = sellers[last.actor].available_balance
    /\ \E k \in PayoutIds :
        /\ payouts[k].seller_id = last.actor
        /\ payouts[k].amount = last.target
        /\ payouts[k].status = "pending"

\* the payouts of seller s that the gateway accepted and has not failed
paid_out(s) ==
    {k \in PayoutIds : payouts[k].seller_id = s /\ payouts[k].status \in {"processing", "completed"}}

\* each payout of seller s was given to the gateway at most once and the
\* gateway called back at most once for it
SettledOnce(s) ==
    \A k \in PayoutIds :
        payouts[k].seller_id = s => (gateway[k].attempts <= 1 /\ gateway[k].callbacks <= 1)

terminal_for(order, its, s) ==
    \/ order.status \in {"delivered", "cancelled"}
    \/ \A p \in seller_items(its, s) : its[p].status \in {"delivered", "cancelled"}

\* C17: pending balance is removed at terminal states.  In the step in
\* which an order, or a seller's items in it, become delivered or
\* cancelled while the seller's pending_balance holds the net amount of
\* the order, that net amount is subtracted from pending_balance.
PendingRemovedAtTerminal ==
    [][\A o \in OrderIds, s \in Sellers :
        LET net_amount == store_decimal(calculate_seller_earnings(items[o], s).net_amount)
        IN  (/\ seller_items(items[o], s) # {}
             /\ ~terminal_for(orders[o], items[o], s)
             /\ terminal_for(orders'[o], items'[o], s)
             /\ sellers[s].pending_balance >= net_amount)
                => sellers'[s].pending_balance = sellers[s].pending_balance - net_amount]_vars

\* C18: item deletion.  A delete_order_item that completes returns the
\* whole quantity of the deleted item to the stock of its product and
\* moves no other stock.  When it was the only item the order is deleted
\* and the answer is ORDER_DELETED; otherwise the order stays, with the
\* other items as they were and total_amount the sum of quantity x price
\* over them.
ItemDeletion ==
    [][(req # NoReq /\ req.op = "delete_order_item" /\ req' = NoReq /\ last'.outcome # "error") =>
        LET o == req.order
            deleted == req.product
            before == req.pre
            remaining == ItemProducts(before.items[o]) \ {deleted}
        IN  /\ \A p \in Products :
                products'[p].stock_quantity =
                    before.products[p].stock_quantity
                        + (IF p = deleted THEN before.items[o][p].quantity ELSE 0)
            /\ IF remaining = {}
               THEN /\ orders'[o] = NoOrder
                    /\ last'.outcome = "ORDER_DELETED"
               ELSE /\ orders'[o] # NoOrder
                    /\ items'[o][deleted] = NoItem
                    /\ \A p \in remaining : items'[o][p] = before.items[o][p]
                    /\ orders'[o].total_amount =
                            SumOver(remaining,
                                    [p \in Products |-> before.items[o][p].quantity
                                                            * before.items[o][p].price])]_vars

\* the buyer's pending order holds n units of Product X and nothing else
CartOfX(n) ==
    \E o \in OrderIds :
        /\ orders[o] # NoOrder
        /\ orders[o].buyer_id = CartBuyer
        /\ orders[o].status = "pending"
        /\ ItemProducts(items[o]) = {ProductX}
        /\ items[o][ProductX].quantity = n

\* C19: the scenario.  Product X starts with stock 5 at price 10.00.
\* (1) Once the buyer's order of 3 units is answered, its total is 30.00
\* and the stock is 2.  (2) With 3 units on the order and 2 in stock, the
\* buyer's update of the item to 5 is accepted, and (3) when it completes
\* the item has quantity 5, the stock is 0 and the product out_of_stock.
\* (4) The buyer's cancel of that order puts the stock back to 5 and the
\* product to active, and the order is cancelled.
ScenarioOrderUpdateCancel ==
    /\ [](\A o \in OrderIds :
            (last.op = "create_order" /\ last.outcome = "ok" /\ last.order = o
                    /\ items[o][ProductX].quantity = 3)
                => (orders[o].total_amount = 3000 /\ products[ProductX].stock_quantity = 2))
    /\ [](\A o \in OrderIds :
            (Idle /\ CartBudget /\ CartOfX(3) /\ orders[o] # NoOrder
                    /\ products[ProductX].stock_quantity = 2)
                => ENABLED UpdateQuantityBegin(CartBuyer, o, ProductX, 5))
    /\ [][(req # NoReq /\ req.op = "update_order_item_quantity" /\ req.product = ProductX
                /\ req.quantity = 5 /\ req' = NoReq /\ last'.outcome = "ok")
            => /\ items'[req.order][ProductX].quantity = 5
               /\ products'[ProductX] = [stock_quantity |-> 0, status |-> "out_of_stock"]]_vars
    /\ [][\A o \in OrderIds :
            (CartOfX(5) /\ orders[o] # NoOrder /\ products[ProductX].stock_quantity = 0
                    /\ last'.op = "update_order_status" /\ last'.actor = CartBuyer
                    /\ last'.outcome = "ok")
                => /\ orders'[o].status = "cancelled"
                   /\ products'[ProductX] = [stock_quantity |-> 5, status |-> "active"]]_vars

\* C20: product status invariant.  Every product that is not inactive
\* has status out_of_stock exactly when its stock_quantity is 0, whatever
\* reservations, releases, checkouts and stock updates have been made.
ProductStatusInvariant ==
    \A p \in Products :
        products[p].status # "inactive"
            => (products[p].status = "out_of_stock" <=> products[p].stock_quantity = 0)

\* C21: order status is consistent with its items.  In every committed
\* state the status of an order is the aggregate derived from the current
\* statuses of all its items (stated for the orders that have items).
OrderStatusMatchesItems ==
    \A o \in OrderIds :
        (orders[o] # NoOrder /\ ItemProducts(items[o]) # {})
            => orders[o].status = calculate_overall_order_status_from_items(StatusItems(items[o]))

\* the units of product p that are on order: the quantities of its items
\* that are not cancelled, in the orders that are not cancelled
reserved_units(p) ==
    SumOver({o \in OrderIds : orders[o] # NoOrder /\ orders[o].status # "cancelled"
                                /\ items[o][p] # NoItem /\ items[o][p].status # "cancelled"},
            [o \in OrderIds |-> items[o][p].quantity])

\* C22: stock conservation.  Without restocking, whenever no request is
\* in progress and none has failed, the stock of every product plus the
\* units of it that are on order is the initial stock.
StockConservation ==
    (req = NoReq /\ faults = 0) =>
        \A p \in Products : products[p].stock_quantity + reserved_units(p) = InitStock

\* C23: order-level terminality.  Once the status of an order is cancelled
\* or delivered, no step changes the status of the order or the status of
\* any of its items.
OrderTerminality ==
    [][\A o \in OrderIds :
        (orders[o] # NoOrder /\ orders[o].status \in {"cancelled", "delivered"})
            => /\ orders'[o] # NoOrder
               /\ orders'[o].status = orders[o].status
               /\ \A p \in Products : items'[o][p].status = items[o][p].status]_vars

\* the net earnings of seller s from the orders, as the balance columns
\* store them
net_earnings(s) ==
    SumOver({o \in OrderIds : orders[o] # NoOrder},
            [o \in OrderIds |-> store_decimal(calculate_seller_earnings(items[o], s).net_amount)])

\* C24: no double settlement.  Whatever status updates are made, what a
\* seller's available_balance has been credited, and what its
\* pending_balance has been debited, is never more than the seller's net
\* earnings from the orders: each order is settled at most once.
NoDoubleSettlement ==
    \A s \in Sellers :
        /\ sellers[s].available_balance <= net_earnings(s)
        /\ 0 - sellers[s].pending_balance <= net_earnings(s)

\* C25: balances are never negative.  In every reachable state the four
\* balances of every seller are >= 0.
BalancesNonNegative ==
    \A s \in Sellers :
        /\ sellers[s].available_balance >= 0
        /\ sellers[s].pending_balance >= 0
        /\ sellers[s].total_paid >= 0
        /\ sellers[s].total_revenue >= 0

\* ------------------------- requests served while a cart request is in flight
\* The application runs in several worker processes.  While one of them is
\* between the commit that ends reserve_stock and the closing commit of
\* create_order_item or update_order_item_quantity, another one serves
\* PATCH /seller/orders/{id}/status: update_seller_items_status
CartRequestInFlight == req.op \in {"create_order_item", "update_order_item_quantity"}

UpdateSellerItemsStatusInFlight(s, o, new_status) ==
    /\ CartRequestInFlight
    /\ last = NoResponse
    /\ \E first \in seller_items(items[o], s) :
        LET r == update_seller_items_status(orders[o], items[o], s, new_status, first)
        IN  /\ orders' = [orders EXCEPT ![o] = r.order]
            /\ items' = [items EXCEPT ![o] = r.items]
            /\ last' = IF r.outcome = "ok"
                       THEN Result("update_seller_items_status", "seller", s, o, new_status,
                                   "ok", NoCalls)
                       ELSE Rejected("update_seller_items_status", "seller", r.outcome)
    /\ UNCHANGED <<products, sellers, cart_ops, faults, req>>
    /\ OthersIdle

\* Product.seller_id when one seller sells both products
OneSellerCatalog == [p \in Products |-> "s1"]

InitInFlight ==
    /\ InitStore
    /\ inv = NoInv
    /\ rs = [w \in Workers |-> IdleCall]
    /\ agg = [items |-> {}, result |-> "idle"]
    /\ catalog = OneSellerCatalog

\* the cart requests of a buyer and the status updates of the sellers, the
\* latter also between the two commits of a cart request
NextInFlight ==
    \/ \E b \in Buyers, p \in Products, q \in 1..MaxQty :
        \/ CreateOrderBegin(b, p, q)
        \/ CreateOrderItemBegin(b, p, q)
    \/ CreateOrderFinish
    \/ CreateOrderItemFinish
    \/ \E b \in Buyers, o \in OrderIds, p \in Products, q \in 1..MaxQty :
        UpdateQuantityBegin(b, o, p, q)
    \/ UpdateQuantityFinish
    \/ \E s \in Sellers, o \in OrderIds, new_status \in ItemStatuses :
        \/ SellerItemsNotFound(s, o, new_status)
        \/ UpdateSellerItemsStatus(s, o, new_status)
        \/ UpdateSellerItemsStatusInFlight(s, o, new_status)
    \/ Respond

SpecInFlight == InitInFlight /\ [][NextInFlight]_vars

\* the statuses of the items of seller s on order o
seller_item_statuses(o, s) == {items[o][p].status : p \in seller_items(items[o], s)}

\* C26: a seller's status update is applied only when all the seller's
\* items on the order share one status: when they differ no item of the
\* seller changes, and every change of an item's status is a transition that
\* a seller is allowed from the status the item itself had
LockStepCheck ==
    [][\A o \in OrderIds :
        /\ \A s \in Sellers :
            Cardinality(seller_item_statuses(o, s)) > 1
                => \A p \in seller_items(items[o], s) :
                        items'[o][p] # NoItem => items'[o][p].status = items[o][p].status
        /\ \A p \in Products :
            (items[o][p] # NoItem /\ items'[o][p] # NoItem
                    /\ items'[o][p].status # items[o][p].status)
                => validate_status_transition(items[o][p].status, items'[o][p].status, "seller")
      ]_vars

\* C27: the quantity of an item changes only while its order is pending,
\* whatever status updates are served while the quantity update is in flight
QuantityOnlyOnPending ==
    [][\A o \in OrderIds : \A p \in Products :
        (items[o][p] # NoItem /\ items'[o][p] # NoItem
                /\ items'[o][p].quantity # items[o][p].quantity)
            => orders[o].status = "pending"]_vars

\* C28: an accepted POST /orders of q units of product p on the buyer's
\* pending order takes exactly q units from the stock; when the order already
\* has an item of p, that item's quantity grows by q and keeps its price;
\* otherwise one item of p is created with quantity q and status pending;
\* the other items of the order are left as they were
AddOrUpdateItem ==
    [][(req.op = "create_order_item" /\ req' = NoReq
            /\ last'.op = "create_order_item" /\ last'.outcome = "ok")
        => LET o == req.order
               p == req.product
               q == req.quantity
           IN  /\ products'[p].stock_quantity = req.pre.products[p].stock_quantity - q
               /\ \A other \in Products \ {p} : items'[o][other] = items[o][other]
               /\ IF items[o][p] # NoItem
                  THEN items'[o][p] = [items[o][p] EXCEPT !.quantity = @ + q]
                  ELSE items'[o][p] = [quantity |-> q, price |-> price(p), status |-> "pending"]
      ]_vars

\* ------------------------------- the gateway's webhook and the notifications
\* Payment.transaction_id as initialize_payment makes it ("ALHAQ_" and hex
\* digits) and SellerPayout.transfer_reference as create_payout makes it
\* ("PAYOUT_" and hex digits), the reference process_payout gives the gateway
payment_reference(o) == <<"ALHAQ", o>>
transfer_reference(k) == <<"PAYOUT", k>>

\* the transaction ids that rows of the payments table can carry
PaymentReferences == {payment_reference(o) : o \in OrderIds}

CallbackBudget == SumOver(PayoutIds, [j \in PayoutIds |-> gateway[j].callbacks]) < MaxCallbacks

\* POST /payments/webhook with a transfer.success or transfer.failed event
\* for the transfer of payout k: the handler first looks for the payment
\* whose transaction_id is the event's reference and answers "ignored" when
\* there is none; only past that does it call handle_payout_webhook
PaystackWebhook(k, status) ==
    /\ Idle
    /\ payouts[k] # NoPayout
    /\ payouts[k].paystack_transfer_id # NoTransferId
    /\ CallbackBudget
    /\ gateway' = [gateway EXCEPT ![k].callbacks = @ + 1]
    /\ IF transfer_reference(k) \notin PaymentReferences
       THEN /\ last' = Result("paystack_webhook", "gateway", None, k, status, "ignored", NoCalls)
            /\ UNCHANGED <<sellers, payouts>>
       ELSE /\ last' = Result("paystack_webhook", "gateway", None, k, status, "success", NoCalls)
            /\ IF status = "success"
               THEN /\ payouts' = [payouts EXCEPT ![k].status = "completed"]
                    /\ UNCHANGED sellers
               ELSE /\ payouts' = [payouts EXCEPT ![k].status = "failed",
                                                  ![k].failure_reason = "Transfer failed"]
                    /\ sellers' = [sellers EXCEPT ![payouts[k].seller_id] =
                                        payout_refunded(@, payouts[k])]
    /\ PayoutsIdle

\* handle_payout_webhook when create_notification raises.  The payout and
\* the refund are assigned but not flushed when it is called, and the first
\* commit is the one inside create_notification.  committed = FALSE: it
\* raises before that commit has ended, and the except branch rolls the
\* session back.  committed = TRUE: it raises after it (refresh, the
\* preferences, the e-mail), and the rollback finds nothing to undo.
HandlePayoutWebhookNotificationFails(k, status, committed) ==
    /\ Idle
    /\ payouts[k] # NoPayout
    /\ payouts[k].paystack_transfer_id # NoTransferId
    /\ CallbackBudget
    /\ faults < MaxFaults
    /\ faults' = faults + 1
    /\ gateway' = [gateway EXCEPT ![k].callbacks = @ + 1]
    /\ IF ~committed
       THEN UNCHANGED <<sellers, payouts>>
       ELSE IF status = "success"
       THEN /\ payouts' = [payouts EXCEPT ![k].status = "completed"]
            /\ UNCHANGED sellers
       ELSE /\ payouts' = [payouts EXCEPT ![k].status = "failed",
                                          ![k].failure_reason = "Transfer failed"]
            /\ sellers' = [sellers EXCEPT ![payouts[k].seller_id] = payout_refunded(@, payouts[k])]
    /\ UNCHANGED <<products, orders, items, cart_ops, req, last, lock, rs, agg, catalog, inv>>

\* POST /seller/payouts when create_notification raises: create_payout has
\* committed the payout before, the router answers 500
RequestPayoutNotificationFails(s, amount) ==
    /\ Idle
    /\ create_payout_check(sellers[s].available_balance, amount) = "ok"
    /\ faults < MaxFaults
    /\ faults' = faults + 1
    /\ \E k \in FreePayoutIds :
        payouts' = [payouts EXCEPT ![k] = new_payout(s, amount)]
    /\ last' = Result("create_payout", "seller", s, None, amount, "error", NoCalls)
    /\ UNCHANGED <<products, orders, items, sellers, cart_ops, req, lock, rs, agg, catalog, inv,
                   gateway>>

\* the payouts with the gateway's callbacks as the webhook receives them
\* and with notifications that fail
NextWebhook ==
    \/ \E s \in Sellers, amount \in PayoutAmounts :
        \/ RequestPayoutRejected(s, amount)
        \/ RequestPayout(s, amount)
        \/ RequestPayoutNotificationFails(s, amount)
    \/ \E k \in PayoutIds, outcome \in GatewayOutcomes : ProcessPayout(k, outcome)
    \/ \E k \in PayoutIds, status \in WebhookStatuses :
        \/ PaystackWebhook(k, status)
        \/ HandlePayoutWebhook(k, status)
        \/ \E committed \in BOOLEAN : HandlePayoutWebhookNotificationFails(k, status, committed)
    \/ Respond

SpecWebhook == InitPayout /\ [][NextWebhook]_vars

\* C29: when the webhook receives the gateway's transfer-failed callback for
\* a payout that is processing, the payout becomes failed with a
\* failure_reason, its amount is returned to the seller's available_balance
\* and the caller gets no error
PayoutFailureSettled ==
    [][\A k \in PayoutIds :
        (last = NoResponse /\ last'.op = "paystack_webhook" /\ last'.order = k
                /\ last'.target = "failed" /\ payouts[k].status = "processing")
            => /\ payouts'[k].status = "failed"
               /\ payouts'[k].failure_reason # None
               /\ sellers'[payouts[k].seller_id].available_balance =
                    sellers[payouts[k].seller_id].available_balance + payouts[k].amount
               /\ last'.outcome # "error"
      ]_vars

\* C30: an operation during which create_notification fails still commits
\* its state change: a settlement callback for a processing payout settles
\* the payout (and refunds a failed one), a payout request leaves the
\* created payout
NotificationFailureIsolated ==
    [][faults' = faults + 1
        => /\ \A k \in PayoutIds :
                (gateway'[k].callbacks = gateway[k].callbacks + 1
                        /\ payouts[k].status = "processing")
                    => /\ payouts'[k].status \in {"completed", "failed"}
                       /\ payouts'[k].status = "failed"
                            => sellers'[payouts[k].seller_id].available_balance =
                                sellers[payouts[k].seller_id].available_balance + payouts[k].amount
           /\ last'.op = "create_payout"
                => \E k \in PayoutIds : payouts[k] = NoPayout /\ payouts'[k] # NoPayout
      ]_vars

====
